---- MODULE Spec2Model ----
(***************************************************************************)
(* Appointment scheduling, appointment status transitions and session      *)
(* records of the telemedicine backend (appointments/ and accounts/).      *)
(* Every request handler is modelled from its code.  Spec runs requests    *)
(* one at a time (each handler is one atomic step); SpecConc runs them on  *)
(* two web workers whose database reads and writes interleave.             *)
(***************************************************************************)
EXTENDS Integers, Sequences, FiniteSets, TLC

\* ---------------------------------------------------------------- bounds
\* Largest number of appointment rows (primary keys 1..MaxAppts).
MaxAppts == 2

\* Instants of the clock and of the requests' timestamps, in minutes.
Times == {0, 10}

\* ---------------------------------------------------------------- users
Patients == {"p1", "p2"}
Doctors == {"d1", "d2", "d3"}
Admins == {"a1"}
Users == Patients \cup Doctors \cup Admins

\* People who have no account yet and register as doctors.
Applicants == {"d4", "d5"}

\* User.role
Role(u) ==
    IF u \in Patients THEN "patient"
    ELSE IF u \in Doctors \cup Applicants THEN "doctor" ELSE "admin"

\* User.is_patient / is_doctor / is_admin: read by the views and serializers,
\* exercised by accounts/tests/test_models.py, not defined in accounts/models.py.
is_patient(u) == Role(u) = "patient"
is_doctor(u) == Role(u) = "doctor"
is_admin(u) == Role(u) = "admin"

\* ---------------------------------------------------------------- constants
NULL == "NULL"

\* An optional request field: <<>> when the request leaves it out, <<v>> otherwise.
Omitted == <<>>
Given(v) == <<v>>
Optional(S) == {Omitted} \cup {Given(v) : v \in S}

\* Appointment.AppointmentStatus
Statuses == {"SCHEDULED", "COMPLETED", "CANCELLED", "NOSHOW"}
TerminalStatuses == {"COMPLETED", "CANCELLED", "NOSHOW"}

\* A transition table that lets a cancelled appointment be scheduled again.
ALLOWED_TRANSITIONS_Reopen ==
    [s \in Statuses |->
        IF s = "SCHEDULED" THEN <<"COMPLETED", "CANCELLED", "NOSHOW">>
        ELSE IF s = "CANCELLED" THEN <<"SCHEDULED">> ELSE <<>>]

\* A transition table that lets a completed appointment be marked as missed.
ALLOWED_TRANSITIONS_CompletedToNoShow ==
    [s \in Statuses |->
        IF s = "SCHEDULED" THEN <<"COMPLETED", "CANCELLED", "NOSHOW">>
        ELSE IF s = "COMPLETED" THEN <<"NOSHOW">> ELSE <<>>]

\* Appointment.ALLOWED_TRANSITIONS
ALLOWED_TRANSITIONS ==
    [s \in Statuses |->
        IF s = "SCHEDULED" THEN <<"COMPLETED", "CANCELLED", "NOSHOW">> ELSE <<>>]

\* DoctorProfile.VerificationStatus, and NO_PROFILE for a doctor-role user
\* that has no DoctorProfile row.
VerificationStatus == {"pending", "approved", "rejected"}
NO_PROFILE == "no_profile"

\* An applicant before registration: no User row and no DoctorProfile row.
NOT_REGISTERED == "not_registered"

\* Appointment.duration: default, and the serializer's min_value / max_value.
DefaultDuration == 30
MinDuration == 10
MaxDuration == 240

\* AppointmentCancelView.update: the reason used when the request has none.
DefaultCancelReason == "Cancelled by user."

\* The web workers that handle requests side by side.
Workers == {"w1", "w2"}

\* The inputs the requests of a specification are drawn from: bookers send the
\* bookings, actors every other request.
\* Inputs: every actor and target on the appointments of one patient and one
\* approved doctor, one explicit duration.
Inputs ==
    [bookers |-> {"p1", "d2"},
     actors |-> Users \ {"d3"},
     doctors |-> Doctors \cup {"p2"},
     times |-> Times,
     durations |-> {Given(10)},
     pks |-> 1..MaxAppts,
     reasons |-> Optional({"r1"}),
     targets |-> Statuses,
     ends |-> {Omitted, Given(10)},
     clinical |-> BOOLEAN,
     profiles |-> {"d1", "d3"},
     new_statuses |-> {"rejected", "verified"}]

\* BookingInputs: a booker of each role, every duration case; the other requests
\* cancel the bookings or mark them as missed.
BookingInputs ==
    [Inputs EXCEPT
        !.bookers = {"p1", "d1", "a1"},
        !.actors = {"p1"},
        !.durations = {Given(d) : d \in {9, 10, 30, 240, 241}},
        !.reasons = {Omitted},
        !.targets = {"NOSHOW"},
        !.ends = {Omitted},
        !.clinical = {TRUE},
        !.profiles = {"d1"},
        !.new_statuses = {"rejected"}]

\* ---------------------------------------------------------------- state
VARIABLES
    now,        \* timezone.now()
    profile,    \* user -> DoctorProfile.verification_status, NO_PROFILE, or
                \* NOT_REGISTERED when there is no such User row
    appts,      \* the Appointment table: row pk is the index, DeletedRow once deleted
    sessions,   \* the SessionRecord table: a sequence of rows
    rooms,      \* the VideoRoom table: a sequence of rows
    daily_rooms, \* the rooms created at the video provider, in the order of the calls
    reqs,       \* worker -> the request it is in the middle of
    last        \* the response to the request that finished last

vars == <<now, profile, appts, sessions, rooms, daily_rooms, reqs, last>>

Idle == [op |-> "idle"]

Init ==
    /\ now = 0
    /\ profile = [u \in Users \cup Applicants |->
                    IF u = "d1" THEN "pending"
                    ELSE IF u = "d2" THEN "approved"
                    ELSE IF u \in Applicants THEN NOT_REGISTERED ELSE NO_PROFILE]
    /\ appts = <<>>
    /\ sessions = <<>>
    /\ rooms = <<>>
    /\ daily_rooms = <<>>
    /\ reqs = [w \in Workers |-> Idle]
    /\ last = [op |-> "none", code |-> "none", detail |-> {}]

\* ---------------------------------------------------------------- helpers
SeqToSet(s) == {s[i] : i \in DOMAIN s}

Contains(s, x) == \E i \in DOMAIN s : s[i] = x

\* There is a User row for u.
Registered(u) == profile[u] # NOT_REGISTERED

\* permission_classes = [IsAuthenticated]: the callers that have an account.
Authenticated(S) == {u \in S : Registered(u)}

\* What is left at a primary key whose row was deleted; primary keys are not
\* given out again.
DeletedRow ==
    [patient |-> NULL, doctor |-> NULL, scheduled_time |-> 0, duration |-> 0,
     status |-> "DELETED", reason |-> NULL]

\* Appointment.objects.filter(pk=pk).exists()
AppointmentExists(pk) == pk \in DOMAIN appts /\ appts[pk] # DeletedRow

\* Appointment.end_time
end_time(a) == a.scheduled_time + a.duration

\* The clock moves on between requests.
Tick ==
    /\ last.op = "none"
    /\ \E t \in Times : t > now /\ now' = t
    /\ UNCHANGED <<profile, appts, sessions, reqs, last, rooms, daily_rooms>>

\* ---------------------------------------------------------------- responses
\* A finished request: the handler, the HTTP status (or the exception that
\* left a model method) and the errors it reported.
Reply(op, code, detail) ==
    /\ last' = [op |-> op, code |-> code, detail |-> detail]

NoReply == [op |-> "none", code |-> "none", detail |-> {}]

\* No request is being handled and the last response has gone out.
AllIdle == last = NoReply /\ \A w \in Workers : reqs[w] = Idle

\* The response leaves the server; the next request is taken after that.
ReturnResponse ==
    /\ last # NoReply
    /\ last' = NoReply
    /\ UNCHANGED <<now, profile, appts, sessions, reqs, rooms, daily_rooms>>

\* ---------------------------------------------------------------- Appointment
\* Appointment(patient, doctor, scheduled_time, duration, status, reason) with the
\* model's defaults for duration, status and reason.
NewAppointment(patient, doctor, t, dur) ==
    [patient |-> patient,
     doctor |-> doctor,
     scheduled_time |-> t,
     duration |-> IF dur = Omitted THEN DefaultDuration ELSE dur[1],
     status |-> "SCHEDULED",
     reason |-> NULL]

\* A clean that refuses a past scheduled_time whatever the status of the instance.
AppointmentClean_PastAnyStatus(inst, pk) ==
    IF inst.scheduled_time < now
    THEN "scheduled_time: Cannot schedule an appointment in the past."
    ELSE IF pk \in DOMAIN appts
              /\ appts[pk].status # inst.status
              /\ ~Contains(ALLOWED_TRANSITIONS[appts[pk].status], inst.status)
         THEN "status: Invalid status transition"
         ELSE "ok"

\* Appointment.clean on an instance with primary key pk (0 before the first
\* save): "ok" or the key of the ValidationError it raises.
AppointmentClean(inst, pk) ==
    IF inst.status = "SCHEDULED" /\ inst.scheduled_time < now
    THEN "scheduled_time: Cannot schedule an appointment in the past."
    ELSE IF pk \in DOMAIN appts
              /\ appts[pk].status # inst.status
              /\ ~Contains(ALLOWED_TRANSITIONS[appts[pk].status], inst.status)
         THEN "status: Invalid status transition"
         ELSE "ok"

\* ', '.join(allowed_next_statuses) or 'none'
JoinAllowed(allowed) ==
    IF allowed = <<>> THEN "none" ELSE "COMPLETED, CANCELLED, NOSHOW"

\* The error dictionary of the ValidationError that Appointment.clean raises:
\* the transition error names the stored status and the new one.
AppointmentCleanErrors(inst, pk) ==
    LET c == AppointmentClean(inst, pk) IN
    IF c = "scheduled_time: Cannot schedule an appointment in the past."
    THEN [scheduled_time |-> "Cannot schedule an appointment in the past."]
    ELSE IF c = "status: Invalid status transition"
         THEN [status |-> <<"Invalid status transition from", appts[pk].status,
                            "to", inst.status>>,
               allowed_transitions |-> JoinAllowed(ALLOWED_TRANSITIONS[appts[pk].status])]
         ELSE [ok |-> TRUE]

\* ---------------------------------------------------------------- AppointmentSerializer
PastError == "scheduled_time: Scheduled time must be in the future"

\* Field validation without validate_scheduled_time.
FieldErrors_NoTimeValidator(doctor, t, dur) ==
    {e \in {"doctor: Invalid pk", "duration: out of range"} :
        \/ e = "doctor: Invalid pk" /\ ~(is_doctor(doctor) /\ Registered(doctor))
        \/ e = "duration: out of range" /\ dur # Omitted
                          /\ (dur[1] < MinDuration \/ dur[1] > MaxDuration)}

\* Field validation whose duration bounds are exclusive: 10 and 240 are refused.
FieldErrors_ExclusiveBounds(doctor, t, dur) ==
    {e \in {"doctor: Invalid pk", PastError, "duration: out of range"} :
        \/ e = "doctor: Invalid pk" /\ ~(is_doctor(doctor) /\ Registered(doctor))
        \/ e = PastError /\ t < now
        \/ e = "duration: out of range" /\ dur # Omitted
                          /\ (dur[1] <= MinDuration \/ dur[1] >= MaxDuration)}

\* The serializer's field validation: the errors of the fields whose value is
\* refused (the doctor queryset, validate_scheduled_time, min_value / max_value).
FieldErrors(doctor, t, dur) ==
    {e \in {"doctor: Invalid pk", PastError, "duration: out of range"} :
        \/ e = "doctor: Invalid pk" /\ ~(is_doctor(doctor) /\ Registered(doctor))
        \/ e = PastError /\ t < now
        \/ e = "duration: out of range" /\ dur # Omitted
                          /\ (dur[1] < MinDuration \/ dur[1] > MaxDuration)}

\* A conflict query that compares the stored start with the candidate's start
\* (scheduled_time__lt=scheduled_time) instead of the candidate's end.
ConflictingAppointments_StartOnly(doctor, t, dur) ==
    {i \in DOMAIN appts :
        /\ appts[i].doctor = doctor
        /\ appts[i].scheduled_time < t
        /\ appts[i].status = "SCHEDULED"}

\* A conflict query without the status filter: appointments of the doctor in
\* every status take part.
ConflictingAppointments_AnyStatus(doctor, t, dur) ==
    {i \in DOMAIN appts :
        /\ appts[i].doctor = doctor
        /\ appts[i].scheduled_time < t + dur}

\* The conflict check of AppointmentSerializer.validate: the rows of the
\* doctor's SCHEDULED appointments that start before the candidate ends, and
\* whether one of them ends after the candidate starts.
ConflictingAppointments(doctor, t, dur) ==
    {i \in DOMAIN appts :
        /\ appts[i].doctor = doctor
        /\ appts[i].scheduled_time < t + dur
        /\ appts[i].status = "SCHEDULED"}

HasConflict(doctor, t, dur) ==
    \E i \in ConflictingAppointments(doctor, t, dur) :
        t < appts[i].scheduled_time + appts[i].duration

\* validate without the check of the requesting user's role.
Validate_AnyRole(actor, doctor, t, dur) ==
    IF profile[doctor] = NO_PROFILE THEN "RelatedObjectDoesNotExist"
    ELSE IF profile[doctor] # "approved" THEN "doctor: Doctor is not approved"
    ELSE IF t < now THEN PastError
    ELSE IF dur # Omitted /\ HasConflict(doctor, t, dur[1])
         THEN "non_field_errors: Doctor is not available at this time"
         ELSE "ok"

\* AppointmentSerializer.validate: "ok" or the error it raises.
Validate(actor, doctor, t, dur) ==
    IF ~is_patient(actor) THEN "non_field_errors: Only patients can book appointments."
    ELSE IF profile[doctor] = NO_PROFILE THEN "RelatedObjectDoesNotExist"
    ELSE IF profile[doctor] # "approved" THEN "doctor: Doctor is not approved"
    ELSE IF t < now THEN PastError
    ELSE IF dur # Omitted /\ HasConflict(doctor, t, dur[1])
         THEN "non_field_errors: Doctor is not available at this time"
         ELSE "ok"

\* serializer.is_valid(): the field validation, then validate(). The result is
\* <<HTTP status, errors>>, <<"ok", {}>> when the data is valid.
IsValid(actor, doctor, t, dur) ==
    IF FieldErrors(doctor, t, dur) # {} THEN <<"400", FieldErrors(doctor, t, dur)>>
    ELSE LET v == Validate(actor, doctor, t, dur) IN
         IF v = "ok" THEN <<"ok", {}>>
         ELSE IF v = "RelatedObjectDoesNotExist" THEN <<"500", {v}>>
         ELSE <<"400", {v}>>

\* AppointmentSerializer.create and Appointment.save of the new row: the checks
\* made before the INSERT. <<"ok", {}>> or the failure.
CreateChecks(actor, doctor, t, dur) ==
    IF ~is_patient(actor) THEN <<"400", {"patient: Only patients can create appointments"}>>
    ELSE IF profile[doctor] = NO_PROFILE THEN <<"400", {"doctor: Doctor must have a profile"}>>
    ELSE LET c == AppointmentClean(NewAppointment(actor, doctor, t, dur), 0) IN
         IF c = "ok" THEN <<"ok", {}>> ELSE <<"500", {c}>>

\* What a handler run as one step does to the table it writes (rows) and what it
\* answers.
Outcome(code, detail, rows) == [code |-> code, detail |-> detail, rows |-> rows]

\* POST /appointments/: AppointmentCreateView with AppointmentSerializer.is_valid,
\* create and Appointment.save.
CreateAppointmentOutcome(actor, doctor, t, dur) ==
    LET v == IsValid(actor, doctor, t, dur)
        c == CreateChecks(actor, doctor, t, dur)
    IN  IF v[1] # "ok" THEN Outcome(v[1], v[2], appts)
        ELSE IF c[1] # "ok" THEN Outcome(c[1], c[2], appts)
        ELSE Outcome("201", {}, Append(appts, NewAppointment(actor, doctor, t, dur)))

CreateAppointment(actor, doctor, t, dur) ==
    /\ AllIdle
    /\ LET o == CreateAppointmentOutcome(actor, doctor, t, dur) IN
        /\ Len(o.rows) <= MaxAppts
        /\ appts' = o.rows
        /\ Reply("create", o.code, o.detail)
    /\ UNCHANGED <<now, profile, sessions, reqs, rooms, daily_rooms>>

\* A booking whose body also carries the fields the serializer declares
\* read-only. The bodies name the approved doctor and an explicit duration, with a
\* patient and a status of the client's choosing or without.
AppointmentBodies ==
    LET base == {[doctor |-> "d2", scheduled_time |-> t, duration |-> 10] : t \in Times}
        with_patient == {[doctor |-> b.doctor, scheduled_time |-> b.scheduled_time,
                          duration |-> b.duration, patient |-> "p2"] : b \in base}
        with_status == {[doctor |-> b.doctor, scheduled_time |-> b.scheduled_time,
                         duration |-> b.duration, status |-> "COMPLETED"] : b \in base}
        with_both == {[doctor |-> b.doctor, scheduled_time |-> b.scheduled_time,
                       duration |-> b.duration, patient |-> "p2", status |-> "COMPLETED"] :
                            b \in base}
    IN  base \cup with_patient \cup with_status \cup with_both

\* A serializer that leaves status writable.
AppointmentReadOnlyFields_PatientOnly == {"patient"}

\* AppointmentSerializer: patient is declared read_only, status is read_only by
\* extra_kwargs.
AppointmentReadOnlyFields == {"patient", "status"}

\* The serializer's validated_data: the body without the read-only fields.
ToInternalValue(body) ==
    [f \in DOMAIN body \ AppointmentReadOnlyFields |-> body[f]]

\* perform_create and create: serializer.save(patient=request.user), then
\* Appointment(**validated_data) with the model's defaults for the fields that
\* validated_data does not carry.
SavedAppointment(actor, data) ==
    [patient |-> actor,
     doctor |-> data.doctor,
     scheduled_time |-> data.scheduled_time,
     duration |-> IF "duration" \in DOMAIN data THEN data.duration ELSE DefaultDuration,
     status |-> IF "status" \in DOMAIN data THEN data.status ELSE "SCHEDULED",
     reason |-> NULL]

\* POST /appointments/ with a body: the checks of CreateAppointmentOutcome on the
\* validated data, and the row built from the validated data.
PostAppointmentOutcome(actor, body) ==
    LET data == ToInternalValue(body)
        dur == IF "duration" \in DOMAIN data THEN Given(data.duration) ELSE Omitted
        o == CreateAppointmentOutcome(actor, data.doctor, data.scheduled_time, dur)
    IN  IF o.code = "201"
        THEN Outcome("201", {}, Append(appts, SavedAppointment(actor, data)))
        ELSE o

PostAppointment(actor, body) ==
    /\ AllIdle
    /\ DOMAIN body \cap {"patient", "status"} # {}
    /\ LET o == PostAppointmentOutcome(actor, body) IN
        /\ Len(o.rows) <= MaxAppts
        /\ appts' = o.rows
        /\ Reply("post", o.code, o.detail)
    /\ UNCHANGED <<now, profile, sessions, reqs, rooms, daily_rooms>>

\* ---------------------------------------------------------------- cancel / save
\* get_object without the "only scheduled appointments" check.
GetObjectForCancel_AnyStatus(actor, pk) ==
    IF ~AppointmentExists(pk) THEN <<"404", {"Not found."}>>
    ELSE IF ~(actor = appts[pk].patient \/ actor = appts[pk].doctor \/ is_admin(actor))
         THEN <<"403", {"You are not authorized to cancel this appointment."}>>
         ELSE <<"ok", {}>>

\* get_object that lets every authenticated user through.
GetObjectForCancel_AnyActor(actor, pk) ==
    IF ~AppointmentExists(pk) THEN <<"404", {"Not found."}>>
    ELSE IF appts[pk].status # "SCHEDULED"
         THEN <<"403", {"Only scheduled appointments can be cancelled."}>>
         ELSE <<"ok", {}>>

\* AppointmentCancelView.get_object: <<"ok", {}>> or the refusal.
GetObjectForCancel(actor, pk) ==
    IF ~AppointmentExists(pk) THEN <<"404", {"Not found."}>>
    ELSE IF ~(actor = appts[pk].patient \/ actor = appts[pk].doctor \/ is_admin(actor))
         THEN <<"403", {"You are not authorized to cancel this appointment."}>>
    ELSE IF appts[pk].status # "SCHEDULED"
         THEN <<"403", {"Only scheduled appointments can be cancelled."}>>
         ELSE <<"ok", {}>>

\* update that only assigns the reason the request carries.
CancelledInstance_NoDefault(pk, reason) ==
    [appts[pk] EXCEPT
        !.status = "CANCELLED",
        !.reason = IF reason = Omitted THEN appts[pk].reason ELSE reason[1]]

\* AppointmentCancelView.update: the instance it is about to save.
CancelledInstance(pk, reason) ==
    [appts[pk] EXCEPT
        !.status = "CANCELLED",
        !.reason = IF reason = Omitted THEN DefaultCancelReason ELSE reason[1]]

\* PATCH /appointments/<pk>/cancel/: get_object, then update with Appointment.save.
CancelAppointmentOutcome(actor, pk, reason) ==
    LET g == GetObjectForCancel(actor, pk) IN
    IF g[1] # "ok" THEN Outcome(g[1], g[2], appts)
    ELSE LET inst == CancelledInstance(pk, reason)
             c == AppointmentClean(inst, pk)
         IN  IF c # "ok" THEN Outcome("500", {c}, appts)
             ELSE Outcome("200", {}, [appts EXCEPT ![pk] = inst])

CancelAppointment(actor, pk, reason) ==
    /\ AllIdle
    /\ LET o == CancelAppointmentOutcome(actor, pk, reason) IN
        /\ appts' = o.rows
        /\ Reply("cancel", o.code, o.detail)
    /\ UNCHANGED <<now, profile, sessions, reqs, rooms, daily_rooms>>

\* appointment.status = target; appointment.save() on the stored row pk:
\* Appointment.save is full_clean and then the UPDATE.
SaveStatusOutcome(pk, target) ==
    LET inst == [appts[pk] EXCEPT !.status = target]
        c == AppointmentClean(inst, pk)
    IN  IF c # "ok" THEN Outcome("ValidationError", {c}, appts)
        ELSE Outcome("saved", {}, [appts EXCEPT ![pk] = inst])

SaveStatus(pk, target) ==
    /\ AllIdle
    /\ AppointmentExists(pk)
    /\ LET o == SaveStatusOutcome(pk, target) IN
        /\ appts' = o.rows
        /\ Reply("save", o.code, o.detail)
    /\ UNCHANGED <<now, profile, sessions, reqs, rooms, daily_rooms>>

\* ---------------------------------------------------------------- SessionRecord
HasSessionRecord(pk) == \E i \in DOMAIN sessions : sessions[i].appointment = pk

NewSessionRecord(pk, start, end) ==
    [appointment |-> pk, start_time |-> start, end_time |-> end]

\* perform_create without the "completed appointments" check.
SessionViewChecks_AnyStatus(actor, pk) ==
    IF ~AppointmentExists(pk) THEN <<"404", {"Not found."}>>
    ELSE IF actor # appts[pk].doctor
         THEN <<"403", {"Only the assigned doctor can create session records."}>>
    ELSE IF HasSessionRecord(pk)
         THEN <<"400", {"A session record already exists for this appointment."}>>
         ELSE <<"ok", {}>>

\* perform_create that checks the actor's role instead of comparing the actor
\* with the appointment's doctor.
SessionViewChecks_AnyDoctor(actor, pk) ==
    IF ~AppointmentExists(pk) THEN <<"404", {"Not found."}>>
    ELSE IF ~is_doctor(actor)
         THEN <<"403", {"Only the assigned doctor can create session records."}>>
    ELSE IF HasSessionRecord(pk)
         THEN <<"400", {"A session record already exists for this appointment."}>>
    ELSE IF appts[pk].status # "COMPLETED"
         THEN <<"400", {"Can only create session record for completed appointments."}>>
         ELSE <<"ok", {}>>

\* SessionRecordCreateView.perform_create up to serializer.save.
SessionViewChecks(actor, pk) ==
    IF ~AppointmentExists(pk) THEN <<"404", {"Not found."}>>
    ELSE IF actor # appts[pk].doctor
         THEN <<"403", {"Only the assigned doctor can create session records."}>>
    ELSE IF HasSessionRecord(pk)
         THEN <<"400", {"A session record already exists for this appointment."}>>
    ELSE IF appts[pk].status # "COMPLETED"
         THEN <<"400", {"Can only create session record for completed appointments."}>>
         ELSE <<"ok", {}>>

\* A clean that accepts an end_time equal to start_time.
SessionClean_EqualAllowed(rec) ==
    IF rec.end_time # Omitted /\ rec.end_time[1] < rec.start_time
    THEN "end_time: End time must be after start time."
    ELSE IF rec.appointment \in DOMAIN appts
              /\ appts[rec.appointment].status # "COMPLETED"
         THEN "appointment: Can only create session records for completed appointments"
         ELSE "ok"

\* SessionRecord.clean: "ok" or the key of the ValidationError.
SessionClean(rec) ==
    IF rec.end_time # Omitted /\ rec.end_time[1] <= rec.start_time
    THEN "end_time: End time must be after start time."
    ELSE IF rec.appointment \in DOMAIN appts
              /\ appts[rec.appointment].status # "COMPLETED"
         THEN "appointment: Can only create session records for completed appointments"
         ELSE "ok"

\* SessionRecord.save up to the INSERT: the existence check, clean, and
\* full_clean's uniqueness validation of the one-to-one field.
SessionSaveChecks(rec) ==
    IF HasSessionRecord(rec.appointment)
    THEN "Session record already exists for this appointment"
    ELSE SessionClean(rec)

\* A plain foreign key instead of the one-to-one field: no UNIQUE column.
UniqueViolation_ForeignKey(rec) == FALSE

\* The INSERT: the one-to-one field is a UNIQUE column of the table.
UniqueViolation(rec) == HasSessionRecord(rec.appointment)

\* The serializer's field validation of a body without diagnosis and treatment.
MissingClinical == {"diagnosis: This field is required.", "treatment: This field is required."}

\* POST /appointments/<appointment_id>/session/: is_valid, perform_create and
\* SessionRecord.save. clinical says whether the body carries a non-empty
\* diagnosis and treatment.
CreateSessionRecordOutcome(actor, pk, end, clinical) ==
    LET v == SessionViewChecks(actor, pk)
        rec == NewSessionRecord(pk, now, end)
    IN  IF ~clinical THEN Outcome("400", MissingClinical, sessions)
        ELSE IF v[1] # "ok" THEN Outcome(v[1], v[2], sessions)
        ELSE IF SessionSaveChecks(rec) # "ok"
             THEN Outcome("500", {SessionSaveChecks(rec)}, sessions)
        ELSE IF UniqueViolation(rec) THEN Outcome("500", {"IntegrityError"}, sessions)
        ELSE Outcome("201", {}, Append(sessions, rec))

CreateSessionRecord(actor, pk, end, clinical) ==
    /\ AllIdle
    /\ LET o == CreateSessionRecordOutcome(actor, pk, end, clinical) IN
        /\ sessions' = o.rows
        /\ Reply("session", o.code, o.detail)
    /\ UNCHANGED <<now, profile, appts, reqs, rooms, daily_rooms>>

\* A session request whose body also carries start_time, which the serializer
\* declares read-only, with an end_time or without.
SessionBodies ==
    {[start_time |-> s, end_time |-> e] :
        s \in {0, 20}, e \in {Omitted, Given(0), Given(10), Given(20)}}

\* SessionRecordSerializer.Meta.read_only_fields.
SessionReadOnlyFields == {"appointment", "start_time"}

\* The serializer's validated_data: the body without the read-only fields.
\* SessionRecordSerializer.validate finds no start_time to compare end_time with
\* (there is no instance and the view puts none in the context) and passes.
SessionValidatedData(body) ==
    [f \in DOMAIN body \ SessionReadOnlyFields |-> body[f]]

\* POST /appointments/<appointment_id>/session/ with a body that carries a
\* non-empty diagnosis and treatment: the checks of CreateSessionRecordOutcome on
\* the validated data; serializer.save(appointment=appointment,
\* start_time=timezone.now()) builds the row.
PostSessionRecordOutcome(actor, pk, body) ==
    CreateSessionRecordOutcome(actor, pk, SessionValidatedData(body).end_time, TRUE)

PostSessionRecord(actor, pk, body) ==
    /\ AllIdle
    /\ LET o == PostSessionRecordOutcome(actor, pk, body) IN
        /\ sessions' = o.rows
        /\ Reply("post_session", o.code, o.detail)
    /\ UNCHANGED <<now, profile, appts, reqs, rooms, daily_rooms>>

\* ---------------------------------------------------------------- verification
\* IsAdminUser: the admin accounts are the staff accounts.
is_staff(u) == u \in Admins

\* The doctor has a DoctorProfile row.
HasProfile(d) == profile[d] \in VerificationStatus

\* DoctorVerificationView.update without the check of new_status against the
\* choices of the field.
SetVerificationStatusOutcome_AnyValue(actor, d, new_status) ==
    IF ~is_staff(actor) THEN Outcome("403", {"permission_denied"}, profile)
    ELSE IF ~HasProfile(d) THEN Outcome("404", {"Not found."}, profile)
    ELSE Outcome("200", {}, [profile EXCEPT ![d] = new_status])

\* PATCH of DoctorVerificationView on the profile of doctor d.
SetVerificationStatusOutcome(actor, d, new_status) ==
    IF ~is_staff(actor) THEN Outcome("403", {"permission_denied"}, profile)
    ELSE IF ~HasProfile(d) THEN Outcome("404", {"Not found."}, profile)
    ELSE IF new_status \notin VerificationStatus
         THEN Outcome("400", {"Invalid verification status"}, profile)
         ELSE Outcome("200", {}, [profile EXCEPT ![d] = new_status])

\* A verification view that cancels the doctor's SCHEDULED appointments when the
\* doctor stops being approved.
SetVerificationStatus_Retroactive(actor, d, new_status) ==
    /\ AllIdle
    /\ LET o == SetVerificationStatusOutcome(actor, d, new_status) IN
        /\ profile' = o.rows
        /\ appts' = [pk \in DOMAIN appts |->
                        IF /\ o.code = "200" /\ new_status # "approved"
                           /\ appts[pk].doctor = d /\ appts[pk].status = "SCHEDULED"
                        THEN [appts[pk] EXCEPT !.status = "CANCELLED"]
                        ELSE appts[pk]]
        /\ Reply("verify", o.code, o.detail)
    /\ UNCHANGED <<now, sessions, reqs, rooms, daily_rooms>>

SetVerificationStatus(actor, d, new_status) ==
    /\ AllIdle
    /\ LET o == SetVerificationStatusOutcome(actor, d, new_status) IN
        /\ profile' = o.rows
        /\ Reply("verify", o.code, o.detail)
    /\ UNCHANGED <<now, appts, sessions, reqs, rooms, daily_rooms>>

\* ---------------------------------------------------------------- accounts
\* The users that can authenticate: the accounts of Users and the applicants that
\* have registered.
Accounts == Authenticated(Users \cup Applicants)

\* The license_number in the registration body of d: the applicants send the same
\* number, the doctors that have a profile hold numbers of their own.
license_number(d) == IF d \in Applicants THEN "lic-1" ELSE d

\* DoctorProfile.objects.filter(license_number=...).exists(), which is also what
\* the UNIQUE column refuses at the INSERT.
LicenseTaken(d) ==
    \E u \in DOMAIN profile : HasProfile(u) /\ license_number(u) = license_number(d)

\* The UniqueValidators of email and license_number.
RegistrationErrors(d) ==
    {e \in {"email: A user with this email already exists.",
            "license_number: This license number is already registered."} :
        \/ e = "email: A user with this email already exists." /\ Registered(d)
        \/ e = "license_number: This license number is already registered."
              /\ LicenseTaken(d)}

\* POST of DoctorRegistrationView by applicant d: DoctorRegistrationSerializer
\* is_valid and create. valid says whether the body passes field validation
\* (passwords, phone, license number); the email of an account is taken.
RegisterDoctorOutcome(d, valid) ==
    IF RegistrationErrors(d) # {} THEN Outcome("400", RegistrationErrors(d), profile)
    ELSE IF ~valid THEN Outcome("400", {"invalid registration data"}, profile)
    ELSE Outcome("201", {}, [profile EXCEPT ![d] = "pending"])

RegisterDoctor(d, valid) ==
    /\ AllIdle
    /\ LET o == RegisterDoctorOutcome(d, valid) IN
        /\ profile' = o.rows
        /\ Reply("register", o.code, o.detail)
    /\ UNCHANGED <<now, appts, sessions, reqs, rooms, daily_rooms>>

\* The bodies of a profile update: with and without a verification_status.
ProfileBodies ==
    {[specialization |-> "s1"]} \cup
    {[specialization |-> "s1", verification_status |-> v] :
        v \in VerificationStatus \cup {"verified"}}

\* A serializer whose verification_status is writable.
ProfileReadOnlyFields_UserOnly == {"user"}

\* DoctorProfileSerializer: the fields declared read_only.
ProfileReadOnlyFields == {"user", "verification_status"}

\* The serializer's validated_data: the body without the read-only fields.
ProfileValidatedData(body) ==
    [f \in DOMAIN body \ ProfileReadOnlyFields |-> body[f]]

\* PUT / PATCH of DoctorProfileDetailView by actor: get_object, then the
\* serializer's update of the actor's own profile from validated_data. The
\* response carries the profile's verification_status.
UpdateDoctorProfileOutcome(actor, body) ==
    IF ~is_doctor(actor)
    THEN Outcome("403", {"Only doctors can access this profile"}, profile)
    ELSE IF ~HasProfile(actor) THEN Outcome("500", {"RelatedObjectDoesNotExist"}, profile)
    ELSE LET data == ProfileValidatedData(body)
             rows == IF "verification_status" \in DOMAIN data
                     THEN [profile EXCEPT ![actor] = data.verification_status]
                     ELSE profile
         IN  Outcome("200", {rows[actor]}, rows)

UpdateDoctorProfile(actor, body) ==
    /\ AllIdle
    /\ actor \in Accounts
    /\ LET o == UpdateDoctorProfileOutcome(actor, body) IN
        /\ profile' = o.rows
        /\ Reply("profile", o.code, o.detail)
    /\ UNCHANGED <<now, appts, sessions, reqs, rooms, daily_rooms>>

\* AccountInputs: registration, profile updates and every verification status, with
\* the bookings of the doctor whose status changes.
AccountInputs ==
    [Inputs EXCEPT
        !.bookers = {"p1"},
        !.actors = {"p1", "d1", "a1"},
        !.doctors = {"d1"},
        !.times = {0},
        !.reasons = {Omitted},
        !.targets = {"COMPLETED"},
        !.ends = {Omitted},
        !.clinical = {TRUE},
        !.profiles = {"d1", "d3", "d4"},
        !.new_statuses = VerificationStatus \cup {"verified"}]

AccountRequests(I) ==
    \/ \E d \in Applicants, valid \in BOOLEAN : RegisterDoctor(d, valid)
    \/ \E actor \in I.actors \cup Applicants, body \in ProfileBodies :
          UpdateDoctorProfile(actor, body)

\* ---------------------------------------------------------------- VideoRoom
\* hasattr(appointment, "video_room")
HasVideoRoom(pk) == \E i \in DOMAIN rooms : rooms[i].appointment = pk

\* appointment.video_room
video_room(pk) == CHOOSE r \in SeqToSet(rooms) : r.appointment = pk

\* f"telemed-{appointment.id}-{uuid.uuid4().hex[:6]}": a name no earlier call has
\* used.
NewRoomName(pk) == <<pk, Len(daily_rooms) + 1>>

NewVideoRoom(pk, room_name) == [appointment |-> pk, room_name |-> room_name]

\* A create view that does not look for an existing room.
VideoRoomChecks_NoExistingCheck(actor, pk) ==
    IF ~AppointmentExists(pk) THEN <<"404", {"Appointment not found"}>>
    ELSE IF actor \notin {appts[pk].patient, appts[pk].doctor}
         THEN <<"403", {"You don't have permission to create a room for this appointment"}>>
         ELSE <<"ok", {}>>

\* VideoRoomCreateView.create up to the call of the provider: the refusal, the
\* existing room, or <<"ok", {}>>.
VideoRoomChecks(actor, pk) ==
    IF ~AppointmentExists(pk) THEN <<"404", {"Appointment not found"}>>
    ELSE IF actor \notin {appts[pk].patient, appts[pk].doctor}
         THEN <<"403", {"You don't have permission to create a room for this appointment"}>>
    ELSE IF HasVideoRoom(pk) THEN <<"200", {video_room(pk)}>>
         ELSE <<"ok", {}>>

VideoTables(r, d) == [rooms |-> r, daily_rooms |-> d]

\* POST /video-room/appointment/<appointment_id>/: the checks,
\* DailyService.create_room (provider_ok says whether the provider answers
\* without an HTTP error) and VideoRoom.objects.create, whose one-to-one column
\* is UNIQUE.
CreateVideoRoomOutcome(actor, pk, provider_ok) ==
    LET c == VideoRoomChecks(actor, pk)
        name == NewRoomName(pk)
    IN  IF c[1] # "ok" THEN Outcome(c[1], c[2], VideoTables(rooms, daily_rooms))
        ELSE IF ~provider_ok
             THEN Outcome("500", {"HTTPError"}, VideoTables(rooms, daily_rooms))
        ELSE IF HasVideoRoom(pk)
             THEN Outcome("500", {"IntegrityError"},
                          VideoTables(rooms, Append(daily_rooms, name)))
        ELSE Outcome("201", {NewVideoRoom(pk, name)},
                     VideoTables(Append(rooms, NewVideoRoom(pk, name)),
                                 Append(daily_rooms, name)))

CreateVideoRoom(actor, pk, provider_ok) ==
    /\ AllIdle
    /\ LET o == CreateVideoRoomOutcome(actor, pk, provider_ok) IN
        /\ rooms' = o.rows.rooms
        /\ daily_rooms' = o.rows.daily_rooms
        /\ Reply("room", o.code, o.detail)
    /\ UNCHANGED <<now, profile, appts, sessions, reqs>>

\* ---------------------------------------------------------------- deletion
\* A doctor foreign key that does not cascade: only the patient's appointments
\* go with the user.
CascadeAppointments_PatientOnly(u) ==
    {pk \in DOMAIN appts : AppointmentExists(pk) /\ appts[pk].patient = u}

\* on_delete=models.CASCADE of Appointment.patient and Appointment.doctor: the
\* appointments deleted with user u.
CascadeAppointments(u) ==
    {pk \in DOMAIN appts :
        AppointmentExists(pk) /\ (appts[pk].patient = u \/ appts[pk].doctor = u)}

\* on_delete=models.CASCADE of SessionRecord.appointment: the session table
\* without the records of the appointments pks.
CascadeSessions(pks) ==
    SelectSeq(sessions, LAMBDA r : r.appointment \notin pks)

\* on_delete=models.CASCADE of VideoRoom.appointment.
CascadeRooms(pks) ==
    SelectSeq(rooms, LAMBDA r : r.appointment \notin pks)

\* The appointment table without the rows pks.
DeleteRows(pks) ==
    [pk \in DOMAIN appts |-> IF pk \in pks THEN DeletedRow ELSE appts[pk]]

\* user.delete(): the User row, its DoctorProfile, the appointments that name
\* the user as patient or as doctor, and their session records.
DeleteUser(u) ==
    /\ AllIdle
    /\ Registered(u)
    /\ profile' = [profile EXCEPT ![u] = NOT_REGISTERED]
    /\ appts' = DeleteRows(CascadeAppointments(u))
    /\ sessions' = CascadeSessions(CascadeAppointments(u))
    /\ rooms' = CascadeRooms(CascadeAppointments(u))
    /\ Reply("delete_user", "deleted", {u})
    /\ UNCHANGED <<now, reqs, daily_rooms>>

\* appointment.delete(): the row and its session record.
DeleteAppointment(pk) ==
    /\ AllIdle
    /\ AppointmentExists(pk)
    /\ appts' = DeleteRows({pk})
    /\ sessions' = CascadeSessions({pk})
    /\ rooms' = CascadeRooms({pk})
    /\ Reply("delete_appointment", "deleted", {})
    /\ UNCHANGED <<now, profile, reqs, daily_rooms>>

\* DeleteInputs: two patients book the approved doctor; appointments are
\* cancelled, completed and given a session record; the doctor's verification
\* status changes; users and appointments are deleted.
DeleteInputs ==
    [Inputs EXCEPT
        !.bookers = {"p1", "p2"},
        !.actors = {"p1", "d2"},
        !.doctors = {"d2"},
        !.times = {0},
        !.reasons = {Omitted},
        !.targets = {"COMPLETED"},
        !.ends = {Omitted},
        !.clinical = {TRUE},
        !.profiles = {"d2"},
        !.new_statuses = {"pending", "approved"}]

DeletableUsers == {"p1", "d2"}

\* The requests of authenticated users, and the deletions.
DeleteRequests(I) ==
    \/ \E actor \in Authenticated(I.bookers), doctor \in I.doctors, t \in I.times,
          dur \in I.durations : CreateAppointment(actor, doctor, t, dur)
    \/ \E actor \in Authenticated(I.actors), pk \in I.pks, reason \in I.reasons :
          CancelAppointment(actor, pk, reason)
    \/ \E pk \in I.pks, target \in I.targets :
          SaveStatus(pk, target)
    \/ \E actor \in Authenticated(I.actors), pk \in I.pks, end \in I.ends,
          clinical \in I.clinical : CreateSessionRecord(actor, pk, end, clinical)
    \/ \E actor \in Authenticated(Admins), d \in I.profiles, new_status \in I.new_statuses :
          SetVerificationStatus(actor, d, new_status)
    \/ \E u \in DeletableUsers : DeleteUser(u)
    \/ \E pk \in I.pks : DeleteAppointment(pk)

NextDelete ==
    \/ Tick
    \/ ReturnResponse
    \/ DeleteRequests(DeleteInputs)

SpecDelete == Init /\ [][NextDelete]_vars

\* ---------------------------------------------------------------- requests one at a time
Requests(I) ==
    \/ \E actor \in I.bookers, doctor \in I.doctors, t \in I.times, dur \in I.durations :
          CreateAppointment(actor, doctor, t, dur)
    \/ \E actor \in I.actors, pk \in I.pks, reason \in I.reasons :
          CancelAppointment(actor, pk, reason)
    \/ \E pk \in I.pks, target \in I.targets :
          SaveStatus(pk, target)
    \/ \E actor \in I.actors, pk \in I.pks, end \in I.ends, clinical \in I.clinical :
          CreateSessionRecord(actor, pk, end, clinical)
    \/ \E actor \in I.actors, d \in I.profiles, new_status \in I.new_statuses :
          SetVerificationStatus(actor, d, new_status)

Next ==
    \/ Tick
    \/ ReturnResponse
    \/ Requests(Inputs)

Spec == Init /\ [][Next]_vars

NextBooking ==
    \/ Tick
    \/ ReturnResponse
    \/ Requests(BookingInputs)
    \/ \E actor \in BookingInputs.bookers, body \in AppointmentBodies :
          PostAppointment(actor, body)

SpecBooking == Init /\ [][NextBooking]_vars

NextAccounts ==
    \/ Tick
    \/ ReturnResponse
    \/ Requests(AccountInputs)
    \/ AccountRequests(AccountInputs)

SpecAccounts == Init /\ [][NextAccounts]_vars

\* ---------------------------------------------------------------- upcoming appointments
\* A base queryset without the status filter.
base_queryset_AnyStatus ==
    {i \in DOMAIN appts : appts[i].scheduled_time >= now}

\* UpcomingAppointmentsView.get_queryset: the rows with scheduled_time__gte=now and
\* status SCHEDULED ...
base_queryset ==
    {i \in DOMAIN appts :
        /\ appts[i].scheduled_time >= now
        /\ appts[i].status = "SCHEDULED"}

\* ... narrowed by the role of the requesting user.
get_queryset(user) ==
    IF is_patient(user) THEN {i \in base_queryset : appts[i].patient = user}
    ELSE IF is_doctor(user) THEN {i \in base_queryset : appts[i].doctor = user}
    ELSE base_queryset

\* order_by("scheduled_time"): every listing of the rows S, each once, in which
\* scheduled_time never decreases. Rows with equal scheduled_time come in the
\* order the database picks.
order_by_scheduled_time(S) ==
    {rows \in [1..Cardinality(S) -> S] :
        /\ \A j, k \in 1..Cardinality(S) : j # k => rows[j] # rows[k]
        /\ \A j, k \in 1..Cardinality(S) :
              j < k => appts[rows[j]].scheduled_time <= appts[rows[k]].scheduled_time}

\* GET /appointments/upcoming/: the answer carries the pks of the listed rows.
UpcomingAppointments(user) ==
    /\ AllIdle
    /\ \E rows \in order_by_scheduled_time(get_queryset(user)) :
          Reply("upcoming", "200", rows)
    /\ UNCHANGED <<now, profile, appts, sessions, reqs, rooms, daily_rooms>>

\* ListingInputs: two patients book the approved doctor at both times, cancel and
\* complete; every user asks for the listing.
ListingInputs ==
    [Inputs EXCEPT
        !.bookers = {"p1", "p2"},
        !.actors = {"p1"},
        !.doctors = {"d2"},
        !.reasons = {Omitted},
        !.targets = {"COMPLETED"},
        !.ends = {Omitted},
        !.clinical = {TRUE},
        !.profiles = {"d3"},
        !.new_statuses = {"rejected"}]

NextListing ==
    \/ Tick
    \/ ReturnResponse
    \/ Requests(ListingInputs)
    \/ \E user \in Users : UpcomingAppointments(user)

SpecListing == Init /\ [][NextListing]_vars

\* ---------------------------------------------------------------- session records
\* SessionInputs: one patient books the approved doctor, the appointment is
\* cancelled or saved with every status, and the doctor and the patient ask for a
\* session record with an end_time before, at and after the current time.
SessionInputs ==
    [Inputs EXCEPT
        !.bookers = {"p1"},
        !.actors = {"p1", "d2"},
        !.doctors = {"d2"},
        !.times = {0},
        !.reasons = {Omitted},
        !.ends = {Omitted, Given(0), Given(10), Given(20)},
        !.profiles = {"d1"},
        !.new_statuses = {"rejected"}]

NextSession ==
    \/ Tick
    \/ ReturnResponse
    \/ Requests(SessionInputs)
    \/ \E actor \in SessionInputs.actors, pk \in SessionInputs.pks, body \in SessionBodies :
          PostSessionRecord(actor, pk, body)

SpecSession == Init /\ [][NextSession]_vars

\* ---------------------------------------------------------------- default duration
\* DefaultInputs: bookings with a duration of 30 minutes and without a duration.
DefaultInputs ==
    [Inputs EXCEPT
        !.bookers = {"p1"},
        !.actors = {"p1"},
        !.doctors = {"d2"},
        !.durations = {Omitted, Given(30)},
        !.reasons = {Omitted},
        !.targets = {"NOSHOW"},
        !.ends = {Omitted},
        !.clinical = {TRUE},
        !.profiles = {"d1"},
        !.new_statuses = {"rejected"}]

NextDefault ==
    \/ Tick
    \/ ReturnResponse
    \/ Requests(DefaultInputs)

SpecDefault == Init /\ [][NextDefault]_vars

\* ---------------------------------------------------------------- requests side by side
\* The same handlers on two workers. Nothing in the views, the serializers or the
\* models opens a transaction or takes a lock, so every query is a step of its own:
\* other workers' queries run between a handler's reads and its write.
Busy(w, op) == reqs[w] # Idle /\ reqs[w].op = op

Finish(w) == reqs' = [reqs EXCEPT ![w] = Idle]

Creating == {w \in Workers : Busy(w, "create")}

\* AppointmentCreateView: serializer.is_valid(), the conflict query included.
StartCreate(w, actor, doctor, t, dur) ==
    /\ last = NoReply
    /\ reqs[w] = Idle
    /\ LET v == IsValid(actor, doctor, t, dur) IN
       IF v[1] # "ok" THEN
            /\ Reply("create", v[1], v[2])
            /\ UNCHANGED reqs
       ELSE /\ Len(appts) + Cardinality(Creating) < MaxAppts
            /\ reqs' = [reqs EXCEPT ![w] =
                    [op |-> "create", actor |-> actor, doctor |-> doctor, t |-> t, dur |-> dur]]
            /\ UNCHANGED last
    /\ UNCHANGED <<now, profile, appts, sessions, rooms, daily_rooms>>

\* AppointmentCreateView.perform_create: serializer.save(), the INSERT.
FinishCreate(w) ==
    /\ last = NoReply
    /\ Busy(w, "create")
    /\ LET r == reqs[w]
           c == CreateChecks(r.actor, r.doctor, r.t, r.dur)
       IN  IF c[1] # "ok" THEN
                /\ Reply("create", c[1], c[2])
                /\ UNCHANGED appts
           ELSE /\ appts' = Append(appts, NewAppointment(r.actor, r.doctor, r.t, r.dur))
                /\ Reply("create", "201", {})
    /\ Finish(w)
    /\ UNCHANGED <<now, profile, sessions, rooms, daily_rooms>>

\* AppointmentCancelView.get_object and the assignments of update.
StartCancel(w, actor, pk, reason) ==
    /\ last = NoReply
    /\ reqs[w] = Idle
    /\ LET g == GetObjectForCancel(actor, pk) IN
       IF g[1] # "ok" THEN
            /\ Reply("cancel", g[1], g[2])
            /\ UNCHANGED reqs
       ELSE /\ reqs' = [reqs EXCEPT ![w] =
                    [op |-> "cancel", pk |-> pk, inst |-> CancelledInstance(pk, reason),
                     pc |-> "loaded"]]
            /\ UNCHANGED last
    /\ UNCHANGED <<now, profile, appts, sessions, rooms, daily_rooms>>

\* Appointment.objects.get(pk) and the assignment of the new status.
StartSave(w, pk, target) ==
    /\ last = NoReply
    /\ reqs[w] = Idle
    /\ AppointmentExists(pk)
    /\ reqs' = [reqs EXCEPT ![w] =
            [op |-> "save", pk |-> pk, inst |-> [appts[pk] EXCEPT !.status = target],
             pc |-> "loaded"]]
    /\ UNCHANGED <<now, profile, appts, sessions, last, rooms, daily_rooms>>

\* Appointment.save: full_clean, which reads the stored row again.
CleanStep(w) ==
    /\ last = NoReply
    /\ Busy(w, "cancel") \/ Busy(w, "save")
    /\ reqs[w].pc = "loaded"
    /\ LET r == reqs[w]
           c == AppointmentClean(r.inst, r.pk)
       IN  IF c # "ok" THEN
                /\ Reply(r.op, IF r.op = "cancel" THEN "500" ELSE "ValidationError", {c})
                /\ Finish(w)
           ELSE /\ reqs' = [reqs EXCEPT ![w].pc = "cleaned"]
                /\ UNCHANGED last
    /\ UNCHANGED <<now, profile, appts, sessions, rooms, daily_rooms>>

\* Appointment.save: the UPDATE of every column from the instance.
WriteStep(w) ==
    /\ last = NoReply
    /\ Busy(w, "cancel") \/ Busy(w, "save")
    /\ reqs[w].pc = "cleaned"
    /\ appts' = [appts EXCEPT ![reqs[w].pk] = reqs[w].inst]
    /\ Reply(reqs[w].op, IF reqs[w].op = "cancel" THEN "200" ELSE "saved", {})
    /\ Finish(w)
    /\ UNCHANGED <<now, profile, sessions, rooms, daily_rooms>>

\* SessionRecordCreateView: is_valid and the checks of perform_create.
StartSession(w, actor, pk, end, clinical) ==
    /\ last = NoReply
    /\ reqs[w] = Idle
    /\ LET v == SessionViewChecks(actor, pk) IN
       IF ~clinical THEN
            /\ Reply("session", "400", MissingClinical)
            /\ UNCHANGED reqs
       ELSE IF v[1] # "ok" THEN
            /\ Reply("session", v[1], v[2])
            /\ UNCHANGED reqs
       ELSE /\ reqs' = [reqs EXCEPT ![w] =
                    [op |-> "session", pk |-> pk, end |-> end, pc |-> "checked"]]
            /\ UNCHANGED last
    /\ UNCHANGED <<now, profile, appts, sessions, rooms, daily_rooms>>

\* serializer.save(start_time=timezone.now()): SessionRecord.save up to the INSERT.
SessionSaveStep(w) ==
    /\ last = NoReply
    /\ Busy(w, "session")
    /\ reqs[w].pc = "checked"
    /\ LET rec == NewSessionRecord(reqs[w].pk, now, reqs[w].end)
           c == SessionSaveChecks(rec)
       IN  IF c # "ok" THEN
                /\ Reply("session", "500", {c})
                /\ Finish(w)
           ELSE /\ reqs' = [reqs EXCEPT ![w] =
                        [op |-> "session", rec |-> rec, pc |-> "cleaned"]]
                /\ UNCHANGED last
    /\ UNCHANGED <<now, profile, appts, sessions, rooms, daily_rooms>>

\* SessionRecord.save: the INSERT.
SessionInsertStep(w) ==
    /\ last = NoReply
    /\ Busy(w, "session")
    /\ reqs[w].pc = "cleaned"
    /\ IF UniqueViolation(reqs[w].rec) THEN
            /\ Reply("session", "500", {"IntegrityError"})
            /\ UNCHANGED sessions
       ELSE /\ sessions' = Append(sessions, reqs[w].rec)
            /\ Reply("session", "201", {})
    /\ Finish(w)
    /\ UNCHANGED <<now, profile, appts, rooms, daily_rooms>>

\* ConcInputs: the requests that race: bookings of one slot of one doctor, and
\* cancellations, completions and session records of the same appointments.
ConcInputs ==
    [Inputs EXCEPT
        !.bookers = {"p1"},
        !.actors = {"p1", "d2"},
        !.doctors = {"d2"},
        !.times = {0},
        !.durations = {Given(10)},
        !.reasons = {Omitted},
        !.targets = {"COMPLETED"},
        !.ends = {Omitted},
        !.clinical = {TRUE}]

Steps(I) ==
    \/ \E w \in Workers, actor \in I.bookers, doctor \in I.doctors, t \in I.times,
          dur \in I.durations : StartCreate(w, actor, doctor, t, dur)
    \/ \E w \in Workers : FinishCreate(w)
    \/ \E w \in Workers, actor \in I.actors, pk \in I.pks, reason \in I.reasons :
          StartCancel(w, actor, pk, reason)
    \/ \E w \in Workers, pk \in I.pks, target \in I.targets : StartSave(w, pk, target)
    \/ \E w \in Workers : CleanStep(w)
    \/ \E w \in Workers : WriteStep(w)
    \/ \E w \in Workers, actor \in I.actors, pk \in I.pks, end \in I.ends,
          clinical \in I.clinical : StartSession(w, actor, pk, end, clinical)
    \/ \E w \in Workers : SessionSaveStep(w)
    \/ \E w \in Workers : SessionInsertStep(w)

NextConc ==
    \/ Tick
    \/ ReturnResponse
    \/ Steps(ConcInputs)

SpecConc == Init /\ [][NextConc]_vars

\* ---------------------------------------------------------------- registrations side by side
\* DoctorRegistrationView.create: serializer.is_valid() with its two uniqueness
\* queries.
StartRegister(w, d) ==
    /\ last = NoReply
    /\ reqs[w] = Idle
    /\ IF RegistrationErrors(d) # {} THEN
            /\ Reply("register", "400", RegistrationErrors(d))
            /\ UNCHANGED reqs
       ELSE /\ reqs' = [reqs EXCEPT ![w] = [op |-> "register", d |-> d, pc |-> "valid"]]
            /\ UNCHANGED last
    /\ UNCHANGED <<now, profile, appts, sessions, rooms, daily_rooms>>

\* DoctorRegistrationSerializer.create: User.objects.create_user(role=DOCTOR),
\* the INSERT of the User row, committed on its own.
CreateUserStep(w) ==
    /\ last = NoReply
    /\ Busy(w, "register") /\ reqs[w].pc = "valid"
    /\ IF Registered(reqs[w].d) THEN
            /\ Reply("register", "500", {"IntegrityError"})
            /\ Finish(w)
            /\ UNCHANGED profile
       ELSE /\ profile' = [profile EXCEPT ![reqs[w].d] = NO_PROFILE]
            /\ reqs' = [reqs EXCEPT ![w].pc = "user"]
            /\ UNCHANGED last
    /\ UNCHANGED <<now, appts, sessions, rooms, daily_rooms>>

\* DoctorProfile.objects.create(user=user, **doctor_data): the INSERT of the
\* profile row, refused when the license number is in the table.
CreateProfileStep(w) ==
    /\ last = NoReply
    /\ Busy(w, "register") /\ reqs[w].pc = "user"
    /\ IF LicenseTaken(reqs[w].d) THEN
            /\ Reply("register", "500", {"IntegrityError"})
            /\ UNCHANGED profile
       ELSE /\ profile' = [profile EXCEPT ![reqs[w].d] = "pending"]
            /\ Reply("register", "201", {})
    /\ Finish(w)
    /\ UNCHANGED <<now, appts, sessions, rooms, daily_rooms>>

NextRegister ==
    \/ Tick
    \/ ReturnResponse
    \/ \E w \in Workers, d \in Applicants : StartRegister(w, d)
    \/ \E w \in Workers : CreateUserStep(w)
    \/ \E w \in Workers : CreateProfileStep(w)
    \/ \E actor \in Admins, d \in Applicants, new_status \in {"approved", "rejected"} :
          SetVerificationStatus(actor, d, new_status)

SpecRegister == Init /\ [][NextRegister]_vars

\* ---------------------------------------------------------------- video rooms side by side
\* VideoRoomCreateView.create: the lookup, the permission check and the look for
\* an existing room.
StartRoom(w, actor, pk) ==
    /\ last = NoReply
    /\ reqs[w] = Idle
    /\ LET c == VideoRoomChecks(actor, pk) IN
       IF c[1] # "ok" THEN
            /\ Reply("room", c[1], c[2])
            /\ UNCHANGED reqs
       ELSE /\ reqs' = [reqs EXCEPT ![w] = [op |-> "room", pk |-> pk, pc |-> "checked"]]
            /\ UNCHANGED last
    /\ UNCHANGED <<now, profile, appts, sessions, rooms, daily_rooms>>

\* DailyService.create_room: the HTTP call to the provider.
ProvisionStep(w, provider_ok) ==
    /\ last = NoReply
    /\ Busy(w, "room") /\ reqs[w].pc = "checked"
    /\ IF ~provider_ok THEN
            /\ Reply("room", "500", {"HTTPError"})
            /\ Finish(w)
            /\ UNCHANGED daily_rooms
       ELSE /\ daily_rooms' = Append(daily_rooms, NewRoomName(reqs[w].pk))
            /\ reqs' = [reqs EXCEPT ![w] =
                    [op |-> "room", pk |-> reqs[w].pk, pc |-> "provisioned",
                     room_name |-> NewRoomName(reqs[w].pk)]]
            /\ UNCHANGED last
    /\ UNCHANGED <<now, profile, appts, sessions, rooms>>

\* VideoRoom.objects.create: the INSERT, refused when the appointment has a room
\* by now or is gone.
InsertRoomStep(w) ==
    /\ last = NoReply
    /\ Busy(w, "room") /\ reqs[w].pc = "provisioned"
    /\ IF HasVideoRoom(reqs[w].pk) \/ ~AppointmentExists(reqs[w].pk) THEN
            /\ Reply("room", "500", {"IntegrityError"})
            /\ UNCHANGED rooms
       ELSE /\ rooms' = Append(rooms, NewVideoRoom(reqs[w].pk, reqs[w].room_name))
            /\ Reply("room", "201", {NewVideoRoom(reqs[w].pk, reqs[w].room_name)})
    /\ Finish(w)
    /\ UNCHANGED <<now, profile, appts, sessions, daily_rooms>>

\* VideoInputs: one patient books the approved doctor; the patient, the doctor and
\* an admin ask for the appointment's room.
VideoInputs ==
    [Inputs EXCEPT
        !.bookers = {"p1"},
        !.actors = {"p1"},
        !.doctors = {"d2"},
        !.times = {0},
        !.reasons = {Omitted},
        !.targets = {"COMPLETED"},
        !.ends = {Omitted},
        !.clinical = {TRUE},
        !.profiles = {"d1"},
        !.new_statuses = {"rejected"}]

RoomCallers == {"p1", "d2", "a1"}

NextVideo ==
    \/ ReturnResponse
    \/ Requests(VideoInputs)
    \/ \E actor \in RoomCallers, pk \in VideoInputs.pks, provider_ok \in BOOLEAN :
          CreateVideoRoom(actor, pk, provider_ok)
    \/ \E w \in Workers, actor \in RoomCallers, pk \in VideoInputs.pks :
          StartRoom(w, actor, pk)
    \/ \E w \in Workers, provider_ok \in BOOLEAN : ProvisionStep(w, provider_ok)
    \/ \E w \in Workers : InsertRoomStep(w)

SpecVideo == Init /\ [][NextVideo]_vars

\* ================================================================ claims
Overlap(a, b) ==
    /\ a.scheduled_time < b.scheduled_time + b.duration
    /\ b.scheduled_time < a.scheduled_time + a.duration

CancelAuthorized(actor, pk) ==
    actor = appts[pk].patient \/ actor = appts[pk].doctor \/ actor \in Admins

\* C1: requests handled one at a time, every booking with an explicit duration:
\* no two SCHEDULED appointments of one doctor have overlapping intervals
\* [scheduled_time, scheduled_time + duration).
C1_NoDoubleBooking ==
    \A i, j \in DOMAIN appts :
        (/\ i # j
         /\ appts[i].doctor = appts[j].doctor
         /\ appts[i].status = "SCHEDULED"
         /\ appts[j].status = "SCHEDULED") => ~Overlap(appts[i], appts[j])

\* A booking was just accepted for a doctor right after another SCHEDULED
\* appointment of that doctor: the two intervals touch.
C1_Witness ==
    /\ last.op = "create" /\ last.code = "201"
    /\ \E i, j \in DOMAIN appts :
        /\ appts[i].doctor = appts[j].doctor
        /\ appts[i].status = "SCHEDULED" /\ appts[j].status = "SCHEDULED"
        /\ end_time(appts[i]) = appts[j].scheduled_time

\* C2: two bookings of one doctor whose intervals overlap, handled side by side,
\* are never both stored as SCHEDULED appointments.
C2_ConcurrentBookingsExclusive ==
    ~\E i, j \in DOMAIN appts :
        /\ i < j
        /\ appts[i].doctor = appts[j].doctor
        /\ {appts[i].status, appts[j].status} = {"SCHEDULED"}
        /\ Overlap(appts[i], appts[j])

\* C3: an appointment's stored status changes only from SCHEDULED to COMPLETED,
\* CANCELLED or NOSHOW; Appointment.save accepts each of those three changes, and
\* a save that would change a stored terminal status to another status raises a
\* ValidationError and leaves the table as it was.
C3_StatusTransitions ==
    /\ [][\A pk \in DOMAIN appts :
            appts'[pk].status # appts[pk].status =>
                appts[pk].status = "SCHEDULED" /\ appts'[pk].status \in TerminalStatuses]_vars
    /\ [](AllIdle =>
            \A pk \in DOMAIN appts, target \in Statuses :
                LET o == SaveStatusOutcome(pk, target) IN
                /\ (appts[pk].status = "SCHEDULED" /\ target \in TerminalStatuses) =>
                        o.code = "saved" /\ o.rows[pk].status = target
                /\ (appts[pk].status \in TerminalStatuses /\ target # appts[pk].status) =>
                        o.code = "ValidationError" /\ o.rows = appts)

\* A save that would leave a terminal status was refused.
C3_Witness ==
    /\ last.op = "save"
    /\ last.detail = {"status: Invalid status transition"}
    /\ \E pk \in DOMAIN appts : appts[pk].status = "NOSHOW"
    /\ \E pk \in DOMAIN appts : appts[pk].status = "COMPLETED"

\* C4: a cancel request answers 200 only for an appointment that is SCHEDULED, and
\* then leaves it CANCELLED; on a COMPLETED, CANCELLED or NOSHOW appointment it is
\* refused for every authorized actor and changes nothing, so the second of two
\* cancel requests in a row is refused; an authorized cancel of a SCHEDULED
\* appointment succeeds.
C4_CancelOnlyScheduled ==
    AllIdle =>
        \A actor \in Users, pk \in DOMAIN appts, reason \in Inputs.reasons :
            LET o == CancelAppointmentOutcome(actor, pk, reason) IN
            /\ o.code = "200" =>
                    appts[pk].status = "SCHEDULED" /\ o.rows[pk].status = "CANCELLED"
            /\ (appts[pk].status \in TerminalStatuses /\ CancelAuthorized(actor, pk)) =>
                    /\ o.code = "403"
                    /\ o.detail = {"Only scheduled appointments can be cancelled."}
                    /\ o.rows = appts
            /\ (appts[pk].status = "SCHEDULED" /\ CancelAuthorized(actor, pk)) =>
                    o.code = "200"

\* The second cancel of an appointment cancelled through the view was refused.
C4_Witness ==
    /\ last.op = "cancel" /\ last.code = "403"
    /\ last.detail = {"Only scheduled appointments can be cancelled."}
    /\ \E pk \in DOMAIN appts :
        appts[pk].status = "CANCELLED" /\ appts[pk].reason = DefaultCancelReason

\* C5: no two session records belong to the same appointment, also when the
\* requests run side by side; a request of the assigned doctor for an appointment
\* that already has a record is refused as a duplicate.
C5_OneSessionRecordPerAppointment ==
    /\ \A i, j \in DOMAIN sessions :
            sessions[i].appointment = sessions[j].appointment => i = j
    /\ \A pk \in DOMAIN appts :
            HasSessionRecord(pk) =>
                SessionViewChecks(appts[pk].doctor, pk) =
                    <<"400", {"A session record already exists for this appointment."}>>

\* Two requests passed every check of the application; the table's UNIQUE column
\* refused the second INSERT.
C5_Witness ==
    /\ last.op = "session" /\ last.detail = {"IntegrityError"}
    /\ Len(sessions) = 1

C7_UnapprovedDoctorRejected ==
    AllIdle =>
        \A actor \in Users, doctor \in Doctors, t \in Times, dur \in Inputs.durations :
            profile[doctor] # "approved" =>
                LET o == CreateAppointmentOutcome(actor, doctor, t, dur) IN
                o.code = "400" /\ o.rows = appts

\* C8: a booking whose scheduled_time is earlier than the current time is answered
\* with a validation error that names scheduled_time and stores no appointment,
\* whatever the actor's role, the doctor and the duration.
C8_PastTimeRejected ==
    AllIdle =>
        \A actor \in Users, doctor \in BookingInputs.doctors, t \in Times,
           dur \in BookingInputs.durations :
            t < now =>
                LET o == CreateAppointmentOutcome(actor, doctor, t, dur) IN
                /\ o.code = "400"
                /\ PastError \in o.detail
                /\ o.rows = appts

\* A booking for a past time and an approved doctor was refused for that reason
\* alone.
C8_Witness ==
    /\ last.op = "create" /\ last.code = "400"
    /\ last.detail = {PastError}
    /\ now > 0

\* C9: a cancel request changes an appointment only when the actor is its patient,
\* its doctor or an admin; from any other user it is answered 403 "not authorized"
\* and leaves the appointment table as it was.
C9_CancelAuthorization ==
    AllIdle =>
        \A actor \in Users, pk \in DOMAIN appts, reason \in Inputs.reasons :
            LET o == CancelAppointmentOutcome(actor, pk, reason) IN
            /\ ~CancelAuthorized(actor, pk) =>
                    /\ o.code = "403"
                    /\ o.detail = {"You are not authorized to cancel this appointment."}
                    /\ o.rows = appts
            /\ o.rows # appts => CancelAuthorized(actor, pk)

\* Another user's cancel request was refused while the appointment is SCHEDULED.
C9_Witness ==
    /\ last.op = "cancel" /\ last.code = "403"
    /\ last.detail = {"You are not authorized to cancel this appointment."}
    /\ \E pk \in DOMAIN appts : appts[pk].status = "SCHEDULED" /\ appts[pk].reason = NULL

C11_VerificationByAdminOnly ==
    AllIdle =>
        \A actor \in Accounts, d \in Doctors \cup Applicants,
           new_status \in AccountInputs.new_statuses \cup {NULL} :
            HasProfile(d) =>
                LET o == SetVerificationStatusOutcome(actor, d, new_status) IN
                IF is_staff(actor) /\ new_status \in VerificationStatus
                THEN o.code = "200" /\ o.rows = [profile EXCEPT ![d] = new_status]
                ELSE o.code \in {"400", "403"} /\ o.rows = profile

\* An admin set an approved doctor, who has an appointment, back to pending.
C11_Witness ==
    /\ last.op = "verify" /\ last.code = "200"
    /\ profile["d1"] = "pending"
    /\ \E pk \in DOMAIN appts : appts[pk].doctor = "d1"

\* C12: a profile created by doctor registration starts pending; afterwards the
\* status of an existing profile changes only in a step that is an accepted
\* SetVerificationStatus request (which only an admin gets, C11); a profile update
\* by any account, whatever verification_status its body carries, leaves every
\* stored status as it was.
C12_StatusChangesOnlyByAdmin ==
    /\ [](AllIdle =>
            /\ \A d \in Applicants, valid \in BOOLEAN :
                    LET o == RegisterDoctorOutcome(d, valid) IN
                    o.rows # profile => o.rows = [profile EXCEPT ![d] = "pending"]
            /\ \A actor \in Accounts, body \in ProfileBodies :
                    UpdateDoctorProfileOutcome(actor, body).rows = profile)
    /\ [][\A d \in Doctors \cup Applicants :
            profile'[d] # profile[d] =>
                IF HasProfile(d)
                THEN last'.op = "verify" /\ last'.code = "200"
                ELSE last'.op = "register" /\ profile'[d] = "pending"]_vars

\* A doctor who registered sent a profile update and is still pending.
C12_Witness ==
    /\ last.op = "profile" /\ last.code = "200"
    /\ last.detail = {"pending"}
    /\ profile["d4"] = "pending"
    /\ profile["d1"] # "pending"

\* C13: a booking sent by a doctor-role or admin-role user is answered 400 and
\* stores no appointment, whatever the doctor, time and duration; when the fields
\* themselves are valid the refusal is validate's "Only patients can book
\* appointments."
C13_OnlyPatientsBook ==
    AllIdle =>
        \A actor \in Users, doctor \in BookingInputs.doctors, t \in Times,
           dur \in BookingInputs.durations :
            ~is_patient(actor) =>
                LET o == CreateAppointmentOutcome(actor, doctor, t, dur) IN
                /\ o.code = "400"
                /\ o.rows = appts
                /\ FieldErrors(doctor, t, dur) = {} =>
                        o.detail = {"non_field_errors: Only patients can book appointments."}

\* A user who is not a patient was refused while a patient's booking is stored.
C13_Witness ==
    /\ last.op = "create" /\ last.code = "400"
    /\ last.detail = {"non_field_errors: Only patients can book appointments."}
    /\ Len(appts) = 1

\* The writable fields of a body.
SameBooking(b1, b2) ==
    /\ b1.doctor = b2.doctor
    /\ b1.scheduled_time = b2.scheduled_time
    /\ b1.duration = b2.duration

\* C14: every appointment a booking stores has the requesting user as patient and
\* status SCHEDULED, whatever patient and status the body carries: two requests of
\* one user that differ only in those two fields have the same outcome.
C14_PatientAndStatusFromServer ==
    AllIdle =>
        \A actor \in Users, b1 \in AppointmentBodies :
            LET o == PostAppointmentOutcome(actor, b1) IN
            /\ o.code = "201" =>
                    /\ Len(o.rows) = Len(appts) + 1
                    /\ o.rows[Len(o.rows)].patient = actor
                    /\ o.rows[Len(o.rows)].status = "SCHEDULED"
            /\ \A b2 \in AppointmentBodies :
                    SameBooking(b1, b2) => PostAppointmentOutcome(actor, b2) = o

\* A booking whose body names another patient or a status was stored.
C14_Witness ==
    /\ last.op = "post" /\ last.code = "201"
    /\ appts[Len(appts)].patient = "p1"
    /\ appts[Len(appts)].status = "SCHEDULED"

\* C15: an accepted cancel request leaves the appointment with status CANCELLED
\* and with the reason the request carries (an empty one included), or with
\* "Cancelled by user." when it carries none; patient, doctor, scheduled_time and
\* duration of the appointment and every other appointment stay as they were.
C15_CancelEffect ==
    AllIdle =>
        \A actor \in Users, pk \in DOMAIN appts, reason \in Optional({"r1", ""}) :
            LET o == CancelAppointmentOutcome(actor, pk, reason) IN
            o.code = "200" =>
                /\ o.rows[pk].status = "CANCELLED"
                /\ o.rows[pk].reason =
                        IF reason = Omitted THEN "Cancelled by user." ELSE reason[1]
                /\ o.rows[pk].patient = appts[pk].patient
                /\ o.rows[pk].doctor = appts[pk].doctor
                /\ o.rows[pk].scheduled_time = appts[pk].scheduled_time
                /\ o.rows[pk].duration = appts[pk].duration
                /\ \A other \in DOMAIN appts \ {pk} : o.rows[other] = appts[other]
                /\ DOMAIN o.rows = DOMAIN appts

\* Two appointments were cancelled, one with a reason and one without.
C15_Witness ==
    /\ last.op = "cancel" /\ last.code = "200"
    /\ \E i, j \in DOMAIN appts :
        /\ appts[i].status = "CANCELLED" /\ appts[i].reason = "r1"
        /\ appts[j].status = "CANCELLED" /\ appts[j].reason = "Cancelled by user."
        /\ appts[i].scheduled_time = appts[j].scheduled_time

\* C16: with a cancel request and a status update of the same appointment handled
\* side by side, at most one of them takes effect: once the stored status of an
\* appointment is terminal, no step changes it.
C16_TerminalStatusFinalConcurrent ==
    [][\A pk \in DOMAIN appts :
            appts[pk].status \in TerminalStatuses =>
                appts'[pk].status = appts[pk].status]_vars

\* C17: every save that would change a stored terminal status to a different
\* status, SCHEDULED included and whatever the appointment's scheduled_time, fails
\* with the status-transition error that names the stored status and the target
\* and reports no allowed next status.
C17_TransitionErrorOnTerminal ==
    AllIdle =>
        \A pk \in DOMAIN appts, target \in Statuses :
            (appts[pk].status \in TerminalStatuses /\ target # appts[pk].status) =>
                LET inst == [appts[pk] EXCEPT !.status = target]
                    o == SaveStatusOutcome(pk, target)
                IN  /\ o.code = "ValidationError"
                    /\ o.rows = appts
                    /\ AppointmentCleanErrors(inst, pk) =
                            [status |-> <<"Invalid status transition from",
                                          appts[pk].status, "to", target>>,
                             allowed_transitions |-> "none"]

\* C18: a booking is accepted only when its scheduled_time is strictly later than
\* the current time: one whose scheduled_time equals the current time, or is
\* earlier, is answered with a validation error that names scheduled_time and
\* stores no appointment.
C18_StrictlyFuture ==
    AllIdle =>
        \A actor \in Users, doctor \in BookingInputs.doctors, t \in Times,
           dur \in BookingInputs.durations :
            t <= now =>
                LET o == CreateAppointmentOutcome(actor, doctor, t, dur) IN
                /\ o.code = "400"
                /\ PastError \in o.detail
                /\ o.rows = appts

\* C19: a booking by a patient for an approved doctor D, with a scheduled_time
\* that is not past and an explicit duration d within the bounds, is refused with
\* "Doctor is not available at this time" exactly when some SCHEDULED appointment
\* of D has start < s + d and s < end; otherwise it is stored. Touching intervals
\* and appointments of D in a terminal status do not cause a refusal.
C19_HalfOpenConflictCheck ==
    AllIdle =>
        \A doctor \in Doctors, s \in Times, dur \in BookingInputs.durations :
            (/\ profile[doctor] = "approved"
             /\ s >= now
             /\ dur[1] >= MinDuration /\ dur[1] <= MaxDuration) =>
                LET d == dur[1]
                    overlapping ==
                        \E i \in DOMAIN appts :
                            /\ appts[i].doctor = doctor
                            /\ appts[i].status = "SCHEDULED"
                            /\ appts[i].scheduled_time < s + d
                            /\ s < appts[i].scheduled_time + appts[i].duration
                    o == CreateAppointmentOutcome("p1", doctor, s, dur)
                IN  IF overlapping
                    THEN /\ o.code = "400"
                         /\ o.detail = {"non_field_errors: Doctor is not available at this time"}
                         /\ o.rows = appts
                    ELSE /\ o.code = "201"
                         /\ o.rows = Append(appts, NewAppointment("p1", doctor, s, dur))

\* A booking was accepted in a slot freed by a cancel: the new SCHEDULED row
\* overlaps a CANCELLED row of the same doctor.
C19_Witness ==
    /\ last.op = "create" /\ last.code = "201"
    /\ Len(appts) = 2
    /\ appts[1].status = "CANCELLED" /\ appts[2].status = "SCHEDULED"
    /\ appts[1].doctor = appts[2].doctor
    /\ appts[1].scheduled_time < appts[2].scheduled_time + appts[2].duration
    /\ appts[2].scheduled_time < appts[1].scheduled_time + appts[1].duration

\* C20: the upcoming listing of a user holds, each once and with scheduled_time
\* never decreasing, exactly the appointments in status SCHEDULED whose
\* scheduled_time is not earlier than the current time and that the user may see:
\* a patient those they are the patient of, a doctor those they are the doctor of,
\* any other user all of them. A cancelled appointment is in no listing.
C20_UpcomingListing ==
    AllIdle =>
        \A user \in Users :
            LET visible ==
                    {i \in DOMAIN appts :
                        /\ appts[i].status = "SCHEDULED"
                        /\ appts[i].scheduled_time >= now
                        /\ user \in Patients => appts[i].patient = user
                        /\ user \in Doctors => appts[i].doctor = user}
                listings == order_by_scheduled_time(get_queryset(user))
            IN  /\ listings # {}
                /\ \A rows \in listings :
                      /\ {rows[k] : k \in DOMAIN rows} = visible
                      /\ Len(rows) = Cardinality(visible)
                      /\ \A j, k \in DOMAIN rows :
                            j < k => appts[rows[j]].scheduled_time
                                        <= appts[rows[k]].scheduled_time
                      /\ \A k \in DOMAIN rows : appts[rows[k]].status # "CANCELLED"

\* A listing was answered that holds the SCHEDULED appointment and leaves out a
\* cancelled appointment of the same patient and doctor that is not past.
C20_Witness ==
    /\ last.op = "upcoming" /\ last.code = "200"
    /\ Len(appts) = 2
    /\ appts[1].status = "CANCELLED" /\ appts[1].scheduled_time >= now
    /\ appts[2].status = "SCHEDULED" /\ appts[2].scheduled_time >= now
    /\ appts[1].patient = appts[2].patient
    /\ last.detail = <<2>>

\* C21: a booking with a duration below 10 or above 240 minutes is answered with a
\* validation error that names duration and stores nothing, whoever asks; a
\* booking by a patient for an approved doctor at a time that is not past and
\* does not conflict is stored with a duration of exactly 10 or exactly 240; and
\* every stored appointment has a duration between 10 and 240.
C21_DurationBounds ==
    /\ \A i \in DOMAIN appts : appts[i].duration >= 10 /\ appts[i].duration <= 240
    /\ AllIdle =>
        \A actor \in Users, doctor \in BookingInputs.doctors, t \in Times,
           dur \in BookingInputs.durations :
            LET o == CreateAppointmentOutcome(actor, doctor, t, dur) IN
            /\ (dur[1] < 10 \/ dur[1] > 240) =>
                  /\ o.code = "400"
                  /\ "duration: out of range" \in o.detail
                  /\ o.rows = appts
            /\ (/\ dur[1] \in {10, 240}
                /\ actor \in Patients /\ doctor \in Doctors
                /\ profile[doctor] = "approved"
                /\ t >= now
                /\ ~HasConflict(doctor, t, dur[1])) =>
                  /\ o.code = "201"
                  /\ o.rows = Append(appts, NewAppointment(actor, doctor, t, dur))
                  /\ o.rows[Len(o.rows)].duration = dur[1]

\* A booking of 240 minutes, the upper bound itself, was stored.
C21_Witness ==
    /\ last.op = "create" /\ last.code = "201"
    /\ Len(appts) >= 1
    /\ appts[Len(appts)].duration = 240

\* C22: a session request that is answered 201 stores a record whose start_time is
\* the current time, whatever start_time the body carries; a request whose
\* end_time is not later than the current time (equal included) stores nothing;
\* and every stored record with an end_time has it after its start_time.
C22_SessionTimes ==
    /\ \A i \in DOMAIN sessions :
          /\ sessions[i].start_time <= now
          /\ sessions[i].end_time # Omitted =>
                sessions[i].end_time[1] > sessions[i].start_time
    /\ AllIdle =>
        \A actor \in Users, pk \in 1..MaxAppts, body \in SessionBodies :
            LET o == PostSessionRecordOutcome(actor, pk, body) IN
            /\ o.code = "201" =>
                  /\ o.rows = Append(sessions, NewSessionRecord(pk, now, body.end_time))
                  /\ o.rows[Len(o.rows)].start_time = now
            /\ (body.end_time # Omitted /\ body.end_time[1] <= now) =>
                  /\ o.code # "201"
                  /\ o.rows = sessions

\* A record was stored at time 10 with start_time 10 and a later end_time, by a
\* request whose body carried start_time 0 or 20.
C22_Witness ==
    /\ last.op = "post_session" /\ last.code = "201"
    /\ now = 10
    /\ Len(sessions) >= 1
    /\ sessions[Len(sessions)].start_time = 10
    /\ sessions[Len(sessions)].end_time = Given(20)

\* C23: every appointment names a patient and a doctor that have a User row, and
\* every session record names an appointment that exists; deleting a user
\* deletes the appointments that name the user, deleting an appointment deletes
\* its session record, and an appointment disappears only in a deletion of the
\* appointment or of its patient or doctor.
C23_ReferentialIntegrity ==
    /\ [](/\ \A pk \in DOMAIN appts :
                AppointmentExists(pk) =>
                    Registered(appts[pk].patient) /\ Registered(appts[pk].doctor)
          /\ \A i \in DOMAIN sessions : AppointmentExists(sessions[i].appointment))
    /\ [][/\ \A pk \in DOMAIN appts :
                (AppointmentExists(pk) /\ appts'[pk] = DeletedRow) =>
                    \/ last'.op = "delete_appointment"
                    \/ /\ last'.op = "delete_user"
                       /\ \/ appts[pk].patient \in last'.detail
                          \/ appts[pk].doctor \in last'.detail
          /\ last'.op = "delete_user" =>
                \A pk \in DOMAIN appts' :
                    appts'[pk] # DeletedRow =>
                        /\ appts'[pk].patient \notin last'.detail
                        /\ appts'[pk].doctor \notin last'.detail
          /\ Len(appts') >= Len(appts)]_vars

\* The doctor was deleted while the patient stays: the appointment that named the
\* doctor is gone and no session record is left.
C23_Witness ==
    /\ last.op = "delete_user" /\ last.detail = {"d2"}
    /\ Len(appts) >= 1 /\ appts[1] = DeletedRow
    /\ sessions = <<>>
    /\ ~Registered("d2") /\ Registered("p1")

\* C24: a SetVerificationStatus request leaves the appointment table and the
\* session records as they were; and an appointment in status SCHEDULED whose
\* doctor is no longer approved is cancelled and completed like any other, while a
\* new booking of that doctor is refused.
C24_VerificationLeavesAppointments ==
    /\ [][last'.op = "verify" => appts' = appts /\ sessions' = sessions]_vars
    /\ [](AllIdle =>
            \A pk \in DOMAIN appts :
                (/\ AppointmentExists(pk)
                 /\ appts[pk].status = "SCHEDULED"
                 /\ profile[appts[pk].doctor] # "approved") =>
                    /\ CancelAppointmentOutcome(appts[pk].patient, pk, Omitted).code = "200"
                    /\ SaveStatusOutcome(pk, "COMPLETED").code = "saved"
                    /\ \A t \in Times :
                          CreateAppointmentOutcome(appts[pk].patient, appts[pk].doctor,
                                                   t, Given(10)).rows = appts)

\* The doctor of a SCHEDULED appointment was approved and has just been rejected.
C24_Witness ==
    /\ last.op = "verify" /\ last.code = "200"
    /\ profile["d1"] = "rejected"
    /\ \E pk \in DOMAIN appts : appts[pk].doctor = "d1" /\ appts[pk].status = "SCHEDULED"

\* C25: a session request by the assigned doctor, with a diagnosis and a
\* treatment, that breaks several preconditions reports the first one broken in
\* this order: the appointment is not COMPLETED, a session record exists already,
\* the end_time is not after the start_time.
C25_SessionErrorOrder ==
    AllIdle =>
        \A pk \in DOMAIN appts, end \in SessionInputs.ends :
            AppointmentExists(pk) =>
                LET o == CreateSessionRecordOutcome(appts[pk].doctor, pk, end, TRUE) IN
                IF appts[pk].status # "COMPLETED"
                THEN o.detail = {"Can only create session record for completed appointments."}
                ELSE IF HasSessionRecord(pk)
                THEN o.detail = {"A session record already exists for this appointment."}
                ELSE IF end # Omitted /\ end[1] <= now
                THEN o.detail = {"end_time: End time must be after start time."}
                ELSE o.code = "201"

\* C26: once no registration is in progress, every applicant either has no
\* account or has a doctor account with its profile: a doctor-role user without a
\* profile is never left behind, also when two registrations with the same
\* license number are handled side by side.
C26_RegistrationAtomic ==
    (\A w \in Workers : reqs[w] = Idle) =>
        \A d \in Applicants : ~Registered(d) \/ HasProfile(d)

C28_DefaultDurationConflictCheck ==
    AllIdle =>
        \A doctor \in DefaultInputs.doctors, t \in Times :
            LET o == CreateAppointmentOutcome("p1", doctor, t, Omitted)
                e == CreateAppointmentOutcome("p1", doctor, t, Given(DefaultDuration))
            IN  /\ o.code = e.code
                /\ o.rows = e.rows
                /\ o.code = "201" => o.rows[Len(o.rows)].duration = 30

\* C29: a cancel request by the patient, the doctor or an admin for an
\* appointment in status SCHEDULED is answered 200 and stores CANCELLED, with the
\* appointment's scheduled_time in the past just as with it still to come; and a
\* save that moves a SCHEDULED appointment to any terminal status passes clean
\* whatever the scheduled_time.
C29_CancelPastAppointment ==
    AllIdle =>
        \A pk \in DOMAIN appts :
            (AppointmentExists(pk) /\ appts[pk].status = "SCHEDULED") =>
                /\ \A actor \in Users, reason \in Optional({"r1"}) :
                      CancelAuthorized(actor, pk) =>
                          LET o == CancelAppointmentOutcome(actor, pk, reason) IN
                          /\ o.code = "200"
                          /\ o.rows[pk].status = "CANCELLED"
                          /\ AppointmentClean(CancelledInstance(pk, reason), pk) = "ok"
                /\ \A target \in TerminalStatuses :
                      SaveStatusOutcome(pk, target).rows[pk].status = target

\* An appointment whose scheduled_time had passed was cancelled.
C29_Witness ==
    /\ last.op = "cancel" /\ last.code = "200"
    /\ \E pk \in DOMAIN appts :
          /\ appts[pk].status = "CANCELLED"
          /\ appts[pk].scheduled_time < now
          /\ \A other \in DOMAIN appts \ {pk} : appts[other].status = "SCHEDULED"

\* C30: no appointment has two video rooms; when an appointment has a room, a
\* create request by its patient or doctor is answered 200 with that room, calls
\* the provider for nothing and stores nothing; and a create request by anyone
\* else, an admin included, is answered 403 and stores nothing.
C30_VideoRoomIdempotent ==
    /\ \A i, j \in DOMAIN rooms : rooms[i].appointment = rooms[j].appointment => i = j
    /\ \A pk \in DOMAIN appts, actor \in Users, provider_ok \in BOOLEAN :
          AppointmentExists(pk) =>
              LET o == CreateVideoRoomOutcome(actor, pk, provider_ok) IN
              IF actor \notin {appts[pk].patient, appts[pk].doctor}
              THEN /\ o.code = "403"
                   /\ o.rows = VideoTables(rooms, daily_rooms)
              ELSE HasVideoRoom(pk) =>
                       /\ o.code = "200"
                       /\ o.detail = {video_room(pk)}
                       /\ video_room(pk) \in SeqToSet(rooms)
                       /\ o.rows = VideoTables(rooms, daily_rooms)

\* The second create request for an appointment was answered with the room of the
\* first: one room in the table, one call of the provider.
C30_Witness ==
    /\ last.op = "room" /\ last.code = "200"
    /\ Len(rooms) = 1 /\ Len(daily_rooms) = 1
    /\ last.detail = {rooms[1]}

====
